---- MODULE Spec2Model ----
(***************************************************************************)
(* trimesh/path/traversal.py: closed-path extraction over a list of curve  *)
(* entities (vertex_graph, vertex_to_entity_path, closed_paths,            *)
(* discretize_path) and arc-length sampling of polylines (PathSample,      *)
(* resample_path).                                                         *)
(*                                                                         *)
(* Conventions.  Vertex indices and entity indices are the source's        *)
(* 0-based values.  Python lists are TLA+ sequences, so a position inside  *)
(* a list is 1-based here: points[1] is points[0] of the source and        *)
(* points[Len(points)] is points[-1].  The entity list is a function over  *)
(* 0 .. n-1.  Real numbers are exact rationals <<num, den>> with den > 0.  *)
(***************************************************************************)
EXTENDS Integers, Sequences, FiniteSets, TLC

VARIABLES
    \* ---- closed-path extraction ----
    entities,      \* the caller's entity list: [0..n-1 -> points sequence]
    vertices,      \* vertex coordinates [vertex -> <<x, y>>], or NoVertices
    pc,            \* "idle", or how the latest call ended: closed_paths
                   \* "done" / "error", vertex_to_entity_path on its own
                   \* "returned" / "raised"
    graph,         \* closed_paths: the graph of vertex_graph
    vertex_paths,  \* the vertex paths the latest call resolved
    entity_paths,  \* what the latest call returned
    calls,         \* number of calls made on the entity list
    orig,          \* history: the entity list as first handed over
    touched,       \* history: entities the edge lookups have returned
    resolutions,   \* history: the vertex_to_entity_path runs of the latest
                   \* call, in order
    discrete,      \* the latest discretize_path call and its result
    \* ---- arc-length sampling ----
    points,        \* the polyline handed to PathSample / resample_path
    call,          \* the latest sampling call and its arguments
    result         \* what that call returned or raised

vars == <<entities, vertices, pc, graph, vertex_paths, entity_paths, calls,
          orig, touched, resolutions, discrete, points, call, result>>

pathVars == <<entities, vertices, pc, graph, vertex_paths, entity_paths,
              calls, orig, touched, resolutions, discrete>>

sampleVars == <<points, call, result>>

\* vertices=None: no coordinates handed over
NoVertices == <<>>

\* no discretize_path call yet
NoDiscrete == [path |-> <<>>, status |-> "none", points |-> <<>>]

-----------------------------------------------------------------------------
(* Bounds of the model *)

\* total number of segments (vertex pairs) over all entities of an input
MaxSegs == 4
\* number of distinct vertex indices an input may use
NumVerts == 4
\* closed_paths calls made over the same entity list
MaxCalls == 2
\* segments of a polyline handed to the sampler
MaxPathSegs == 3
\* largest count handed to resample_path
MaxCount == 5
\* largest step handed to resample_path
MaxStep == 4
\* truncate distances are the multiples of 1 / DistDen
DistDen == 2

-----------------------------------------------------------------------------
(* Sequences *)

Min(a, b) == IF a <= b THEN a ELSE b

Max(a, b) == IF a >= b THEN a ELSE b

Range(s) == { s[i] : i \in DOMAIN s }

\* s[::-1]
Reverse(s) == [i \in 1..Len(s) |-> s[Len(s) + 1 - i]]

\* s[::d] for d in {1, -1}
Stride(s, d) == IF d = -1 THEN Reverse(s) ELSE s

RECURSIVE Concat(_)
\* np.vstack of a list of point lists
Concat(ss) == IF ss = <<>> THEN <<>> ELSE Head(ss) \o Concat(Tail(ss))

-----------------------------------------------------------------------------
(* Entities: the attributes of the curve primitives the module consumes *)

\* entity.end_points: the two terminal vertices
end_points(pts) == <<pts[1], pts[Len(pts)]>>

\* entity.nodes: one vertex pair per internal segment
nodes(pts) == [i \in 1..(Len(pts) - 1) |-> <<pts[i], pts[i + 1]>>]

\* entity.closed: a loop on its own
is_closed(pts) == Len(pts) > 2 /\ pts[1] = pts[Len(pts)]

\* entity.discrete(vertices): the coordinates of the entity's points
entity_discrete(pts, verts) == [i \in 1..Len(pts) |-> verts[pts[i]]]

\* is_ccw: sign of the signed area of a closed ring of 2D points
is_ccw(ring) ==
    LET term(i) == (ring[i][1] * ring[i + 1][2]) - (ring[i + 1][1] * ring[i][2])
        RECURSIVE Sum(_)
        Sum(i) == IF i = 0 THEN 0 ELSE term(i) + Sum(i - 1)
    IN  Sum(Len(ring) - 1) > 0

-----------------------------------------------------------------------------
(* networkx.Graph as vertex_graph fills it: nodes and each node's          *)
(* neighbours in insertion order, one data value per undirected edge       *)

EmptyGraph == [nodes |-> <<>>, adj |-> <<>>, data |-> <<>>]

AddNode(G, u) ==
    IF u \in Range(G.nodes) THEN G
    ELSE [G EXCEPT !.nodes = Append(@, u), !.adj = (u :> <<>>) @@ @]

AddNbr(G, u, v) ==
    IF v \in Range(G.adj[u]) THEN G
    ELSE [G EXCEPT !.adj = (u :> Append(G.adj[u], v)) @@ @]

\* Graph.add_edge(u, v, entity_index=index): an edge already present keeps
\* its place and takes the new entity_index
add_edge(G, u, v, index) ==
    LET G1 == AddNode(AddNode(G, u), v)
        G2 == AddNbr(AddNbr(G1, u, v), v, u)
    IN  [G2 EXCEPT !.data = ({u, v} :> index) @@ @]

RECURSIVE add_edges_from(_, _, _)
add_edges_from(G, pairs, index) ==
    IF pairs = <<>> THEN G
    ELSE add_edges_from(add_edge(G, Head(pairs)[1], Head(pairs)[2], index),
                        Tail(pairs), index)

\* graph.get_edge_data(u, v)['entity_index']
get_edge_data(G, u, v) == G.data[{u, v}]

RECURSIVE VertexGraphFrom(_, _, _)
\* the loop of vertex_graph from entity `index` on
VertexGraphFrom(ents, index, acc) ==
    IF index \notin DOMAIN ents THEN acc
    ELSE IF is_closed(ents[index])
         THEN VertexGraphFrom(ents, index + 1,
                  [acc EXCEPT !.closed = Append(@, index)])
         ELSE VertexGraphFrom(ents, index + 1,
                  [acc EXCEPT !.graph =
                       add_edges_from(@, nodes(ents[index]), index)])

RECURSIVE GraphOfAllFrom(_, _, _)
GraphOfAllFrom(ents, index, acc) ==
    IF index \notin DOMAIN ents THEN acc
    ELSE GraphOfAllFrom(ents, index + 1,
             [acc EXCEPT !.graph = add_edges_from(@, nodes(ents[index]), index)])

\* vertex_graph without the test of entity.closed: every entity adds edges
vertex_graph_all_entities(ents) ==
    GraphOfAllFrom(ents, 0, [graph |-> EmptyGraph, closed |-> <<>>])

vertex_graph(ents) ==
    VertexGraphFrom(ents, 0, [graph |-> EmptyGraph, closed |-> <<>>])

-----------------------------------------------------------------------------
(* networkx.cycle_basis.  set.pop() hands out an arbitrary node, so the    *)
(* root of each component is a free choice; the neighbours of a node are   *)
(* visited in the order the graph holds them.                              *)

RECURSIVE WalkPred(_, _, _, _)
\* while p not in pn: cycle.append(p); p = pred[p] -- then cycle.append(p)
WalkPred(pred, pn, p, cycle) ==
    IF p \in pn THEN Append(cycle, p)
    ELSE WalkPred(pred, pn, pred[p], Append(cycle, p))

\* the body of `for nbr in G[z]` for one neighbour
VisitNbr(z, nbr, st) ==
    IF nbr \notin DOMAIN st.used
    THEN [st EXCEPT !.pred = (nbr :> z) @@ @,
                    !.stack = Append(@, nbr),
                    !.used = (nbr :> {z}) @@ @]
    ELSE IF nbr = z
    THEN [st EXCEPT !.cycles = Append(@, <<z>>)]
    ELSE IF nbr \notin st.used[z]
    THEN [st EXCEPT !.cycles =
                        Append(@, WalkPred(st.pred, st.used[nbr], st.pred[z],
                                           <<nbr, z>>)),
                    !.used = (nbr :> (st.used[nbr] \cup {z})) @@ @]
    ELSE st

RECURSIVE VisitNbrs(_, _, _, _)
VisitNbrs(z, nbrs, i, st) ==
    IF i > Len(nbrs) THEN st
    ELSE VisitNbrs(z, nbrs, i + 1, VisitNbr(z, nbrs[i], st))

RECURSIVE WalkStack(_, _)
\* while stack: z = stack.pop(); ...
WalkStack(G, st) ==
    IF st.stack = <<>> THEN st
    ELSE LET z == st.stack[Len(st.stack)]
             popped == [st EXCEPT !.stack = SubSeq(@, 1, Len(@) - 1)]
         IN  WalkStack(G, VisitNbrs(z, G.adj[z], 1, popped))

\* one round of `while gnodes` with the given root: the cycles of root's
\* component, and in pred the nodes it reached
cycle_basis_component(G, root) ==
    WalkStack(G, [stack |-> <<root>>,
                  pred |-> (root :> root),
                  used |-> (root :> {}),
                  cycles |-> <<>>])

RECURSIVE CycleBasisFrom(_, _)
\* the lists of cycles the loop `while gnodes` can still add
CycleBasisFrom(G, gnodes) ==
    IF gnodes = {} THEN { <<>> }
    ELSE UNION { LET st == cycle_basis_component(G, root)
                 IN  { st.cycles \o rest :
                         rest \in CycleBasisFrom(G, gnodes \ DOMAIN st.pred) } :
                 root \in gnodes }

\* nx.cycles.cycle_basis(graph): every list of cycles it can return
cycle_basis(G) == CycleBasisFrom(G, Range(G.nodes))

-----------------------------------------------------------------------------
(* vertex_to_entity_path *)

\* the ValueError 'edges aren't connected!'
NotConnected == <<0, 0>>

\* edge_direction(a, b): <<a_direction, b_direction>>, or the ValueError
edge_direction(a, b) ==
    IF a[1] = b[1] THEN <<-1, 1>>
    ELSE IF a[1] = b[2] THEN <<-1, -1>>
    ELSE IF a[2] = b[1] THEN <<1, 1>>
    ELSE IF a[2] = b[2] THEN <<1, -1>>
    ELSE NotConnected

\* vertices[np.append(vertex_path, vertex_path[0])]
Ring(vertex_path, verts) ==
    [i \in 1..(Len(vertex_path) + 1) |->
        verts[vertex_path[((i - 1) % Len(vertex_path)) + 1]]]

\* ccw_direction without the orientation test
ccw_direction_always_forward(vertex_path, verts) == 1

ccw_direction(vertex_path, verts) ==
    IF verts = NoVertices THEN 1
    ELSE IF is_ccw(Ring(vertex_path, verts)) THEN 1 ELSE -1

\* the loop stopping before the edge that closes the cycle
edge_entities_without_wrap(vertex_path, G) ==
    [k \in 1..(Len(vertex_path) - 1) |->
        get_edge_data(G, vertex_path[k], vertex_path[k + 1])]

\* the deque filled by the loop over np.arange(len(vertex_path) + 1)
edge_entities(vertex_path, G) ==
    LET n == Len(vertex_path)
    IN  [k \in 1..(n + 1) |->
            get_edge_data(G, vertex_path[((k - 1) % n) + 1],
                             vertex_path[(k % n) + 1])]

RECURSIVE UniqueFrom(_, _, _)
UniqueFrom(s, i, acc) ==
    IF i > Len(s) THEN acc
    ELSE UniqueFrom(s, i + 1,
                    IF s[i] \in Range(acc) THEN acc ELSE Append(acc, s[i]))

\* grouping.unique_ordered: the values in order of first appearance
unique_ordered(s) == UniqueFrom(s, 1, <<>>)

\* unique_ordered(entity_path)[::ccw_direction]
entity_path_of(vertex_path, G, verts) ==
    Stride(unique_ordered(edge_entities(vertex_path, G)),
           ccw_direction(vertex_path, verts))

\* align_pair that has reversed a by the time edge_direction raises
align_pair_reverses_before_raise(ents, a, b) ==
    LET d == edge_direction(end_points(ents[a]), end_points(ents[b]))
    IN  IF d = NotConnected
        THEN [raised |-> TRUE, entities |-> [ents EXCEPT ![a] = Reverse(@)]]
        ELSE LET ents1 == [ents EXCEPT ![a] = Stride(@, d[1])]
             IN  [raised |-> FALSE,
                  entities |-> [ents1 EXCEPT ![b] = Stride(@, d[2])]]

\* one (a, b) of round_trip: raise, or reverse a and then b in place
align_pair(ents, a, b) ==
    LET d == edge_direction(end_points(ents[a]), end_points(ents[b]))
    IN  IF d = NotConnected THEN [raised |-> TRUE, entities |-> ents]
        ELSE LET ents1 == [ents EXCEPT ![a] = Stride(@, d[1])]
             IN  [raised |-> FALSE,
                  entities |-> [ents1 EXCEPT ![b] = Stride(@, d[2])]]

RECURSIVE AlignFrom(_, _, _)
\* the loop over round_trip from pair k on; failed is the pair that raised
AlignFrom(ents, path, k) ==
    IF k > Len(path) THEN [entities |-> ents, failed |-> 0]
    ELSE LET nxt == align_pair(ents, path[k], path[(k % Len(path)) + 1])
         IN  IF nxt.raised THEN [entities |-> nxt.entities, failed |-> k]
             ELSE AlignFrom(nxt.entities, path, k + 1)

vertex_to_entity_path(vertex_path, G, ents, verts) ==
    LET path == entity_path_of(vertex_path, G, verts)
        done == AlignFrom(ents, path, 1)
    IN  [entity_path |-> path, entities |-> done.entities,
         failed |-> done.failed]

-----------------------------------------------------------------------------
(* discretize_path: the points, or the ValueError of an empty path *)

discretize_path(ents, verts, path) ==
    LET path_len == Len(path)
        current(i) == entity_discrete(ents[path[i]], verts)
        stacked ==
            IF path_len = 1 THEN current(1)
            ELSE Concat([i \in 1..path_len |->
                     IF i >= path_len THEN current(i)
                     ELSE SubSeq(current(i), 1, Len(current(i)) - 1)])
    IN  IF path_len = 0 THEN [status |-> "ValueError", points |-> <<>>]
        ELSE IF Len(verts[0]) = 2 /\ ~is_ccw(stacked)
             THEN [status |-> "ok", points |-> Reverse(stacked)]
             ELSE [status |-> "ok", points |-> stacked]

-----------------------------------------------------------------------------
(* Exact arithmetic for the sampler.  A distance is <<num, den>>, a point  *)
(* or vector is <<x, y, den>> standing for (x/den, y/den); den > 0.        *)

Abs(a) == IF a < 0 THEN -a ELSE a

RECURSIVE Gcd(_, _)
Gcd(a, b) == IF b = 0 THEN a ELSE Gcd(b, a % b)

\* lowest terms
Frac(n, d) == LET g == Gcd(Abs(n), d) IN <<n \div g, d \div g>>

Pt(x, y, d) ==
    LET g == Gcd(Gcd(Abs(x), Abs(y)), d) IN <<x \div g, y \div g, d \div g>>

FracLess(a, b) == a[1] * b[2] < b[1] * a[2]

FracSub(a, b) == Frac((a[1] * b[2]) - (b[1] * a[2]), a[2] * b[2])

RECURSIVE SqrtFrom(_, _)
SqrtFrom(n, r) == IF (r + 1) * (r + 1) > n THEN r ELSE SqrtFrom(n, r + 1)

\* the square root of a perfect square
Sqrt(n) == SqrtFrom(n, 0)

\* np.linalg.norm of q - p, for points a whole or rational distance apart
Dist(p, q) ==
    LET dx == (q[1] * p[3]) - (p[1] * q[3])
        dy == (q[2] * p[3]) - (p[2] * q[3])
    IN  Frac(Sqrt((dx * dx) + (dy * dy)), p[3] * q[3])

\* the square of np.linalg.norm of q - p
DistSquared(p, q) ==
    LET dx == (q[1] * p[3]) - (p[1] * q[3])
        dy == (q[2] * p[3]) - (p[2] * q[3])
    IN  Frac((dx * dx) + (dy * dy), p[3] * q[3] * p[3] * q[3])

\* tol.merge, the distance below which two points are one
TolMergeDen == 100000

tol_merge == <<1, TolMergeDen>>

\* x < tol.merge
BelowMerge(x) == FracLess(x, tol_merge)

\* norm < tol.merge, from the square of the norm: num * TolMergeDen^2 < den,
\* worked out by division to stay within 32-bit integers
SquareBelowMerge(x2) ==
    x2[1] <= ((x2[2] - 1) \div TolMergeDen) \div TolMergeDen

RECURSIVE SumTo(_, _)
\* ns[0] + ... + ns[k-1]
SumTo(ns, k) == IF k = 0 THEN 0 ELSE ns[k] + SumTo(ns, k - 1)

\* the total length of a list of points: norm(diff(pts)).sum()
PolyLength(pts) ==
    LET RECURSIVE Upto(_)
        Upto(k) ==
            IF k = 0 THEN <<0, 1>>
            ELSE LET rest == Upto(k - 1)
                     d == Dist(pts[k], pts[k + 1])
                 IN  Frac((rest[1] * d[2]) + (d[1] * rest[2]), rest[2] * d[2])
    IN  Upto(Len(pts) - 1)

-----------------------------------------------------------------------------
(* PathSample *)

\* PathSample.__init__ for a list of points <<x, y, 1>>
PathSample(pts) ==
    LET n == Len(pts) - 1
        vectors == [i \in 1..n |->
                       <<pts[i + 1][1] - pts[i][1], pts[i + 1][2] - pts[i][2]>>]
        norms == [i \in 1..n |->
                     Sqrt((vectors[i][1] * vectors[i][1])
                          + (vectors[i][2] * vectors[i][2]))]
    IN  [points |-> pts,
         vectors |-> vectors,
         norms |-> norms,
         \* divided by the norm where the norm is above tol.zero
         unit_vec |-> [i \in 1..n |->
                          IF norms[i] > 0
                          THEN <<vectors[i][1], vectors[i][2], norms[i]>>
                          ELSE <<vectors[i][1], vectors[i][2], 1>>],
         length |-> SumTo(norms, n),
         cum_norm |-> [i \in 1..n |-> SumTo(norms, i)]]

\* np.searchsorted(cum_norm, distance): the number of entries below it
searchsorted(cum_norm, distance) ==
    Cardinality({ i \in DOMAIN cum_norm :
                    cum_norm[i] * distance[2] < distance[1] })

\* np.clip
clip(x, lo, hi) == IF x < lo THEN lo ELSE IF x > hi THEN hi ELSE x

\* PathSample.sample for one distance
sample_at(ps, distance) ==
    LET position == clip(searchsorted(ps.cum_norm, distance), 0,
                         Len(ps.unit_vec) - 1)
        \* np.append(0, cum_norm)[position]
        offset == IF position = 0 THEN 0 ELSE ps.cum_norm[position]
        projection == FracSub(distance, <<offset, 1>>)
        direction == ps.unit_vec[position + 1]
        origin == ps.points[position + 1]
        den == direction[3] * projection[2]
    IN  Pt((origin[1] * den) + (direction[1] * projection[1]),
           (origin[2] * den) + (direction[2] * projection[1]),
           den)

\* PathSample.sample
sample(ps, distances) ==
    [k \in 1..Len(distances) |-> sample_at(ps, distances[k])]

\* util.unitize: the vector over its norm
unitize(v) == <<v[1], v[2], Sqrt((v[1] * v[1]) + (v[2] * v[2]))>>

\* PathSample.truncate, for a distance within the cumulative lengths
truncate(ps, distance) ==
    LET n == Len(ps.cum_norm)
        position == searchsorted(ps.cum_norm, distance)
        \* cum_norm[position - 1]: index -1 is the last entry
        prior == IF position = 0 THEN ps.cum_norm[n] ELSE ps.cum_norm[position]
        offset == FracSub(distance, <<prior, 1>>)
        \* np.diff(self._points[np.arange(2) + position])
        unit == unitize(<<ps.points[position + 2][1] - ps.points[position + 1][1],
                          ps.points[position + 2][2] - ps.points[position + 1][2]>>)
        den == unit[3] * offset[2]
        endpoint == Pt((ps.points[position + 1][1] * den) + (unit[1] * offset[1]),
                       (ps.points[position + 1][2] * den) + (unit[2] * offset[1]),
                       den)
        truncated == IF BelowMerge(offset)
                     THEN SubSeq(ps.points, 1, position + 1)
                     ELSE Append(SubSeq(ps.points, 1, position + 1), endpoint)
    IN  IF BelowMerge(FracSub(PolyLength(truncated), distance))
        THEN [status |-> "ok", value |-> truncated]
        ELSE [status |-> "AssertionError", value |-> <<>>]

-----------------------------------------------------------------------------
(* resample_path *)

\* count=None, step=None
Absent == 0

\* np.linspace(0, stop, num)
linspace(stop, num) ==
    IF num = 1 THEN << <<0, 1>> >>
    ELSE [k \in 1..num |-> Frac((k - 1) * stop, num - 1)]

\* np.arange(0, stop, step)
arange(stop, step) ==
    [k \in 1..((stop + step - 1) \div step) |-> <<(k - 1) * step, 1>>]

\* int(np.ceil(length / step))
ceil_div(length, step) == (length + step - 1) \div step

resample_path(pts, count, step, step_round) ==
    IF count # Absent /\ step # Absent
    THEN [status |-> "ValueError", value |-> <<>>]
    ELSE IF count = Absent /\ step = Absent
    THEN [status |-> "ValueError", value |-> <<>>]
    ELSE LET sampler == PathSample(pts)
             rounded == step # Absent /\ step_round
         IN  IF rounded /\ step >= sampler.length
             THEN [status |-> "ok", value |-> <<pts[1], pts[Len(pts)]>>]
             ELSE LET count2 == IF rounded THEN ceil_div(sampler.length, step)
                                ELSE count
                      samples == IF count2 # Absent
                                 THEN linspace(sampler.length, count2)
                                 ELSE arange(sampler.length, step)
                      resampled == sample(sampler, samples)
                  IN  IF resampled = <<>>
                      THEN [status |-> "IndexError", value |-> <<>>]
                      ELSE IF ~SquareBelowMerge(
                                  DistSquared(pts[1], resampled[1]))
                      THEN [status |-> "AssertionError", value |-> <<>>]
                      ELSE IF count2 # Absent /\
                              ~SquareBelowMerge(
                                  DistSquared(pts[Len(pts)],
                                              resampled[Len(resampled)]))
                      THEN [status |-> "AssertionError", value |-> <<>>]
                      ELSE [status |-> "ok", value |-> resampled]

-----------------------------------------------------------------------------
(* The inputs: entity lists and vertex coordinates *)

Verts == 0..(NumVerts - 1)

RECURSIVE MaxOf(_)
MaxOf(S) == IF S = {} THEN -1
            ELSE LET x == CHOOSE y \in S : TRUE IN Max(x, MaxOf(S \ {x}))

\* the vertex indices a list of point sequences uses
UsedVerts(L) == UNION { Range(L[i]) : i \in DOMAIN L }

\* the vertex indices the next point may take: one already in use or the
\* smallest unused one (vertices are numbered in order of first use)
NextVerts(L) == 0..Min(MaxOf(UsedVerts(L)) + 1, NumVerts - 1)

\* the lists with one segment more than L: a new two-point entity at the end
\* of the list, or one more point on the last entity
Grow(L) ==
    LET top == MaxOf(UsedVerts(L))
    IN  UNION { { Append(L, <<u, v>>) :
                      v \in 0..Min(Max(top, u) + 1, NumVerts - 1) } :
                u \in NextVerts(L) }
        \cup (IF L = <<>> THEN {}
              ELSE { [L EXCEPT ![Len(L)] = Append(@, v)] : v \in NextVerts(L) })

\* a curve that does not touch itself: no vertex twice, but for a loop of
\* three or more segments that ends on its first vertex
SimpleCurve(pts) ==
    /\ \A i, j \in 1..(Len(pts) - 1) : i # j => pts[i] # pts[j]
    /\ \A i \in 2..(Len(pts) - 1) : pts[i] # pts[Len(pts)]
    /\ pts[1] = pts[Len(pts)] => Len(pts) >= 4

RECURSIVE ListsUpTo(_)
ListsUpTo(k) ==
    IF k = 0 THEN { <<>> }
    ELSE LET prev == ListsUpTo(k - 1)
         IN  prev \cup { M \in UNION { Grow(L) : L \in prev } :
                            \A i \in DOMAIN M : SimpleCurve(M[i]) }

\* the entity lists of at most MaxSegs segments, as [0..n-1 -> points]
EntityLists ==
    { [i \in 0..(Len(L) - 1) |-> L[i + 1]] : L \in ListsUpTo(MaxSegs) \ { <<>> } }

\* vertex coordinates: vertex v at (v, 2^v), which puts the vertices in
\* convex position, counter-clockwise by index, and gives no ring of them a
\* signed area of zero; and the mirror image of that
Layouts == { [v \in Verts |-> <<v, 2 ^ v>>], [v \in Verts |-> <<2 ^ v, v>>] }

-----------------------------------------------------------------------------
(* Closed-path extraction *)

RECURSIVE ResolveFrom(_, _, _, _, _)
\* closed_paths, lines 167-176: the loop over vertex_paths from position i
ResolveFrom(vps, i, G, verts, acc) ==
    IF i > Len(vps) THEN acc
    ELSE IF Len(vps[i]) < 2 THEN ResolveFrom(vps, i + 1, G, verts, acc)
    ELSE LET r == vertex_to_entity_path(vps[i], G, acc.entities, verts)
             rec == [vertex_path |-> vps[i], entity_path |-> r.entity_path,
                     failed |-> r.failed, before |-> acc.entities,
                     after |-> r.entities]
         IN  IF r.failed # 0
             THEN [acc EXCEPT !.entities = r.entities, !.raised = TRUE,
                              !.resolutions = Append(@, rec)]
             ELSE ResolveFrom(vps, i + 1, G, verts,
                      [acc EXCEPT !.entities = r.entities,
                                  !.entity_paths = Append(@, r.entity_path),
                                  !.resolutions = Append(@, rec)])

\* closed_paths for one outcome vps of cycle_basis
closed_paths(ents, verts, G, closed, vps) ==
    ResolveFrom(vps, 1, G, verts,
                [entities |-> ents,
                 entity_paths |-> [i \in 1..Len(closed) |-> <<closed[i]>>],
                 resolutions |-> <<>>,
                 raised |-> FALSE])

\* the entities the edge lookups of the given runs returned
Met(runs, G) ==
    UNION { Range(edge_entities(runs[k].vertex_path, G)) : k \in DOMAIN runs }

RECURSIVE PathsFrom(_, _)
\* the paths of the graph that start with p and repeat no vertex
PathsFrom(G, p) ==
    {p} \cup UNION { PathsFrom(G, Append(p, v)) :
                         v \in Range(G.adj[p[Len(p)]]) \ Range(p) }

\* the vertex_path argument of a call of vertex_to_entity_path on its own:
\* the simple cycles of the graph, from any start and in either direction
VertexCycles(G) ==
    { p \in UNION { PathsFrom(G, <<u>>) : u \in Range(G.nodes) } :
        Len(p) >= 3 /\ p[1] \in Range(G.adj[p[Len(p)]]) }

PathInit ==
    /\ entities \in EntityLists
    /\ vertices \in Layouts \cup {NoVertices}
    /\ orig = entities
    /\ pc = "idle"
    /\ graph = EmptyGraph
    /\ vertex_paths = <<>>
    /\ entity_paths = <<>>
    /\ calls = 0
    /\ touched = {}
    /\ resolutions = <<>>
    /\ discrete = NoDiscrete

PathOff ==
    /\ entities = <<>> /\ vertices = NoVertices /\ orig = <<>> /\ pc = "off"
    /\ graph = EmptyGraph /\ vertex_paths = <<>> /\ entity_paths = <<>>
    /\ calls = 0 /\ touched = {} /\ resolutions = <<>>
    /\ discrete = NoDiscrete

\* the caller runs closed_paths(entities, vertices); a raised ValueError
\* leaves pc = "error" and nothing returned
ClosedPaths ==
    /\ pc \in {"idle", "done", "error", "returned", "raised"}
    /\ calls < MaxCalls
    /\ \E vg \in { vertex_graph(entities) } :
          /\ graph' = vg.graph
          /\ \E vps \in cycle_basis(vg.graph) :
             \E run \in { closed_paths(entities, vertices, vg.graph,
                                       vg.closed, vps) } :
                /\ vertex_paths' = vps
                /\ entities' = run.entities
                /\ resolutions' = run.resolutions
                /\ touched' = touched \cup Met(run.resolutions, vg.graph)
                /\ entity_paths' =
                       IF run.raised THEN <<>> ELSE run.entity_paths
                /\ pc' = IF run.raised THEN "error" ELSE "done"
    /\ calls' = calls + 1
    /\ discrete' = NoDiscrete
    /\ UNCHANGED <<vertices, orig, sampleVars>>

\* the caller runs vertex_to_entity_path on its own, with the graph of
\* vertex_graph(entities) and a cycle of it; a raised ValueError leaves
\* pc = "raised" and nothing returned
VertexToEntityPath ==
    /\ pc \in {"idle", "done", "error", "returned", "raised"}
    /\ calls < MaxCalls
    /\ \E vg \in { vertex_graph(entities) } :
       \E vp \in VertexCycles(vg.graph) :
       \E r \in { vertex_to_entity_path(vp, vg.graph, entities, vertices) } :
          /\ graph' = vg.graph
          /\ vertex_paths' = <<vp>>
          /\ entities' = r.entities
          /\ resolutions' =
                 << [vertex_path |-> vp, entity_path |-> r.entity_path,
                     failed |-> r.failed, before |-> entities,
                     after |-> r.entities] >>
          /\ touched' = touched \cup Range(edge_entities(vp, vg.graph))
          /\ entity_paths' = IF r.failed # 0 THEN <<>> ELSE <<r.entity_path>>
          /\ pc' = IF r.failed # 0 THEN "raised" ELSE "returned"
    /\ calls' = calls + 1
    /\ discrete' = NoDiscrete
    /\ UNCHANGED <<vertices, orig, sampleVars>>

\* the caller discretizes one of the paths closed_paths returned, or hands
\* over an empty path
DiscretizePath ==
    /\ pc = "done"
    /\ vertices # NoVertices
    /\ \E path \in Range(entity_paths) \cup {<<>>} :
       \E d \in { discretize_path(entities, vertices, path) } :
          discrete' = [path |-> path, status |-> d.status,
                       points |-> d.points]
    /\ UNCHANGED <<entities, vertices, pc, graph, vertex_paths, entity_paths,
                   calls, orig, touched, resolutions, sampleVars>>

NoSampleCall == [op |-> "none", distance |-> <<0, 1>>, count |-> Absent,
                 step |-> Absent, step_round |-> TRUE]

NoResult == [status |-> "none", value |-> <<>>]

SampleOff == points = <<>> /\ call = NoSampleCall /\ result = NoResult

Init == PathInit /\ SampleOff

Next ==
    \/ ClosedPaths
    \/ VertexToEntityPath
    \/ DiscretizePath

Spec == Init /\ [][Next]_vars

-----------------------------------------------------------------------------
(* Properties of closed-path extraction *)

\* entities[a].points[-1] == entities[b].points[0] for every cyclically
\* consecutive (a, b) of the path
Aligned(path, ents) ==
    \A k \in 1..Len(path) :
        ents[path[k]][Len(ents[path[k]])] =
            ents[path[(k % Len(path)) + 1]][1]

\* C1: when closed_paths has returned, every returned entity path is
\* cyclically adjacent in the final entity state
C1_ReturnedPathsAdjacent ==
    pc = "done" =>
        \A i \in DOMAIN entity_paths : Aligned(entity_paths[i], entities)

\* n >= 3 two-point entities that are the edges of one simple polygon
IsPolygon(ents) ==
    LET n == Cardinality(DOMAIN ents)
        vs == UNION { Range(ents[i]) : i \in DOMAIN ents }
        deg(v) == Cardinality({ i \in DOMAIN ents : v \in Range(ents[i]) })
        RECURSIVE Reach(_)
        Reach(S) ==
            LET T == S \cup { v \in vs : \E i \in DOMAIN ents :
                                  v \in Range(ents[i])
                                  /\ Range(ents[i]) \cap S # {} }
            IN  IF T = S THEN S ELSE Reach(T)
    IN  /\ n >= 3
        /\ \A i \in DOMAIN ents : Len(ents[i]) = 2 /\ ents[i][1] # ents[i][2]
        /\ \A i, j \in DOMAIN ents : i # j => Range(ents[i]) # Range(ents[j])
        /\ \A v \in vs : deg(v) = 2
        /\ Reach({ents[0][1]}) = vs

\* C2: for the edges of a simple polygon, in any order and direction,
\* closed_paths returns exactly one path and it holds every entity index
\* exactly once
C2_PolygonOnePath ==
    (pc \in {"done", "error"} /\ IsPolygon(orig)) =>
        /\ pc = "done"
        /\ Len(entity_paths) = 1
        /\ Len(entity_paths[1]) = Cardinality(DOMAIN entities)
        /\ Range(entity_paths[1]) = DOMAIN entities

C2_Witness ==
    /\ pc = "done" /\ calls = 1
    /\ IsPolygon(orig)
    /\ Cardinality(DOMAIN orig) = 4
    /\ orig[0] = <<0, 1>> /\ orig[1] = <<2, 3>>
    /\ entities # orig
    /\ Len(entity_paths) = 1

\* C5: a ring that tests clockwise gives the reverse of what the same
\* vertex path gives under coordinates that test counter-clockwise, and no
\* coordinates give the counter-clockwise (first-occurrence) order
C5_OrientationReversesPath ==
    \A k \in DOMAIN resolutions :
        LET vp == resolutions[k].vertex_path
            got == resolutions[k].entity_path
            ccw == { L \in Layouts : is_ccw(Ring(vp, L)) }
        IN  /\ (vertices # NoVertices /\ ~is_ccw(Ring(vp, vertices))) =>
                   \A L \in ccw : got = Reverse(entity_path_of(vp, graph, L))
            /\ vertices = NoVertices =>
                   /\ \A L \in ccw : got = entity_path_of(vp, graph, L)
                   /\ got = unique_ordered(edge_entities(vp, graph))

C5_Witness ==
    \E k \in DOMAIN resolutions :
        /\ vertices # NoVertices
        /\ ~is_ccw(Ring(resolutions[k].vertex_path, vertices))
        /\ \E L \in Layouts : is_ccw(Ring(resolutions[k].vertex_path, L))
        /\ Len(resolutions[k].entity_path) >= 3

\* the entities of the pairs of round_trip before pair k
InEarlierPair(path, k) ==
    { path[j] : j \in 1..(k - 1) } \cup
    { path[(j % Len(path)) + 1] : j \in 1..(k - 1) }

\* C6: a pair without a common end point raises; nothing is returned, the
\* pair is left as it was, and only entities of earlier pairs have changed
C6_RaiseKeepsLaterEntities ==
    /\ pc \in {"error", "raised"} =>
         /\ entity_paths = <<>>
         /\ resolutions # <<>>
         /\ LET r == resolutions[Len(resolutions)]
                n == Len(r.entity_path)
                a == r.entity_path[r.failed]
                b == r.entity_path[(r.failed % n) + 1]
            IN  /\ r.failed \in 1..n
                /\ entities = r.after
                /\ Range(end_points(entities[a])) \cap
                       Range(end_points(entities[b])) = {}
                /\ \A e \in DOMAIN entities :
                       entities[e] # r.before[e] =>
                           e \in InEarlierPair(r.entity_path, r.failed)
    /\ \A k \in DOMAIN resolutions :
           LET r == resolutions[k]
           IN  (\E j \in 1..Len(r.entity_path) :
                    Range(end_points(r.after[r.entity_path[j]])) \cap
                    Range(end_points(
                        r.after[r.entity_path[(j % Len(r.entity_path)) + 1]]))
                    = {})
               => r.failed # 0

C6_Witness ==
    /\ pc = "error"
    /\ resolutions[Len(resolutions)].failed >= 2
    /\ entities # resolutions[Len(resolutions)].before

\* C8: for a returned path of two or more entities, discretize_path gives
\* the entities' point sequences joined with the last point of every entity
\* but the final one dropped (turned round when that is what makes it
\* counter-clockwise), no point is followed by an identical one, and the
\* sequence is counter-clockwise
JoinedPoints(ents, verts, path) ==
    Concat([i \in 1..Len(path) |->
               LET cur == entity_discrete(ents[path[i]], verts)
               IN  IF i = Len(path) THEN cur
                   ELSE SubSeq(cur, 1, Len(cur) - 1)])

NoRepeatedPoint(pts) == \A i \in 1..(Len(pts) - 1) : pts[i] # pts[i + 1]

C8_DiscretizeSeamless ==
    (discrete.status = "ok" /\ Len(discrete.path) >= 2) =>
        /\ discrete.points \in
               { JoinedPoints(entities, vertices, discrete.path),
                 Reverse(JoinedPoints(entities, vertices, discrete.path)) }
        /\ NoRepeatedPoint(discrete.points)
        /\ is_ccw(discrete.points)

\* C9: the entity list keeps its length and indices, every entity's points
\* are its original points or their reversal, and closed entities and open
\* entities that no edge lookup of a resolved cycle returned (those on no
\* resolved cycle among them) keep their original points
C9_OnlyReversals ==
    /\ DOMAIN entities = DOMAIN orig
    /\ \A i \in DOMAIN orig :
          /\ entities[i] \in { orig[i], Reverse(orig[i]) }
          /\ (is_closed(orig[i]) \/ i \notin touched) => entities[i] = orig[i]

C9_Witness ==
    /\ calls = 2
    /\ \E i \in DOMAIN orig : entities[i] # orig[i]
    /\ \E i \in DOMAIN orig : ~is_closed(orig[i]) /\ i \notin touched
    /\ \E i \in DOMAIN orig : i \in touched /\ entities[i] = orig[i]

\* C10: one vertex_to_entity_path call over open entities with two distinct
\* end points each that returns a path leaves a's tail equal to b's head
\* for every cyclically consecutive (a, b) of that path
C10_SingleCallAligns ==
    \A k \in DOMAIN resolutions :
        LET r == resolutions[k]
        IN  (/\ r.failed = 0
             /\ \A j \in DOMAIN r.entity_path :
                    LET e == r.before[r.entity_path[j]]
                    IN  ~is_closed(e) /\ e[1] # e[Len(e)])
            => Aligned(r.entity_path, r.after)

-----------------------------------------------------------------------------
(* Arc-length sampling: the polylines and the calls *)

\* the segments a polyline is made of; (3, 4) has length 5, (0, 0) repeats
\* a point
Moves == { <<0, 0>>, <<1, 0>>, <<0, 2>>, <<-1, 0>>, <<3, 4>> }

RECURSIVE PolyLinesOf(_)
\* the polylines of exactly k segments from the origin
PolyLinesOf(k) ==
    IF k = 0 THEN { << <<0, 0, 1>> >> }
    ELSE { Append(pl, <<pl[Len(pl)][1] + m[1], pl[Len(pl)][2] + m[2], 1>>) :
               pl \in PolyLinesOf(k - 1), m \in Moves }

PolyLines == UNION { PolyLinesOf(k) : k \in 1..MaxPathSegs }

SampleInit ==
    /\ points \in PolyLines
    /\ call = NoSampleCall
    /\ result = NoResult

\* the caller's one call on the polyline:
\* PathSample(points).truncate(distance), 0 <= distance <= length
Truncate ==
    /\ points # <<>>
    /\ call = NoSampleCall
    /\ \E ps \in { PathSample(points) } :
       \E m \in 0..(ps.length * DistDen) :
          /\ call' = [NoSampleCall EXCEPT !.op = "truncate",
                                          !.distance = Frac(m, DistDen)]
          /\ result' = truncate(ps, Frac(m, DistDen))
    /\ UNCHANGED <<points, pathVars>>

\* the caller's one call on the polyline:
\* resample_path(points, count, step, step_round)
ResamplePath ==
    /\ points # <<>>
    /\ call = NoSampleCall
    /\ \E count \in {Absent} \cup 1..MaxCount,
          step \in {Absent} \cup 1..MaxStep,
          step_round \in BOOLEAN :
          /\ call' = [NoSampleCall EXCEPT !.op = "resample",
                                          !.count = count,
                                          !.step = step,
                                          !.step_round = step_round]
          /\ result' = resample_path(points, count, step, step_round)
    /\ UNCHANGED <<points, pathVars>>

InitSample == PathOff /\ SampleInit

NextSample ==
    \/ Truncate
    \/ ResamplePath

SpecSample == InitSample /\ [][NextSample]_vars

-----------------------------------------------------------------------------
(* Properties of arc-length sampling *)

PtEq(p, q) == p[1] * q[3] = q[1] * p[3] /\ p[2] * q[3] = q[2] * p[3]

FracLeq(a, b) == a[1] * b[2] <= b[1] * a[2]

\* the length of segment i of the polyline
SegLen(pts, i) == Dist(pts[i], pts[i + 1])

RECURSIVE WalkTo(_, _, _)
\* the point reached by walking the distance d along the polyline from its
\* point i on
WalkTo(pts, i, d) ==
    LET len == SegLen(pts, i)
    IN  IF i < Len(pts) - 1 /\ FracLess(len, d)
        THEN WalkTo(pts, i + 1, FracSub(d, len))
        ELSE IF len[1] = 0 THEN pts[i]
        ELSE LET den == len[1] * d[2]
                 num == d[1] * len[2]
             IN  Pt((pts[i][1] * den) + ((pts[i + 1][1] - pts[i][1]) * num),
                    (pts[i][2] * den) + ((pts[i + 1][2] - pts[i][2]) * num),
                    den)

\* the point of the polyline at arc length d from its start
PointAtArc(pts, d) == WalkTo(pts, 1, d)

\* the value is n points at arc lengths 0, h, 2h, ... (n-1)h = length
EvenlySpaced(pts, value) ==
    LET n == Len(value)
        length == PolyLength(pts)
    IN  \A k \in 1..n :
           PtEq(value[k],
                PointAtArc(pts, Frac((k - 1) * length[1], (n - 1) * length[2])))

IsResample == call.op = "resample"

ByCount == IsResample /\ call.count # Absent /\ call.step = Absent

ByRoundedStep ==
    IsResample /\ call.count = Absent /\ call.step # Absent /\ call.step_round

\* C3: a rounded step below the total length gives samples evenly spaced in
\* arc length, no further apart than the step, the last one the input's
\* last point
C3_RoundedStepSpacing ==
    (ByRoundedStep /\ FracLess(<<call.step, 1>>, PolyLength(points))) =>
        /\ result.status = "ok"
        /\ Len(result.value) >= 2
        /\ EvenlySpaced(points, result.value)
        /\ FracLeq(PolyLength(points),
                   <<call.step * (Len(result.value) - 1), 1>>)
        /\ PtEq(result.value[Len(result.value)], points[Len(points)])

\* C4: truncate(d) returns a polyline of total length d within tol.merge
C4_TruncateLength ==
    call.op = "truncate" =>
        /\ result.status = "ok"
        /\ BelowMerge(FracSub(PolyLength(result.value), call.distance))
        /\ BelowMerge(FracSub(call.distance, PolyLength(result.value)))

\* C7: every count >= 1 returns count evenly spaced points from
\* the first input point to the last
C7_CountAnyPositive ==
    ByCount =>
        /\ result.status = "ok"
        /\ Len(result.value) = call.count
        /\ PtEq(result.value[1], points[1])
        /\ PtEq(result.value[Len(result.value)], points[Len(points)])
        /\ call.count >= 2 => EvenlySpaced(points, result.value)

====
